---- MODULE Spec2Model ----
(***************************************************************************)
(* Model of the recipe extraction pipeline of src/app.py: the text         *)
(* sanitizer, the ISO-8601 duration parser, the JSON-LD Recipe locator and *)
(* normalizer, the DOM fallback cascade, the article segmenter and the     *)
(* orchestrating parse_recipe.                                             *)
(*                                                                         *)
(* A Python str is a sequence of one-character strings.  Optional values   *)
(* are records with a `none` flag so that every value of a field has the   *)
(* same shape.  An uncaught exception is an outcome of its own ("raised"). *)
(* The author, tags and nutrition fields, the flat article paragraph list  *)
(* and the HTTP route around parse_recipe are left out: they take no part  *)
(* in the properties below and cannot change the fields that do.           *)
(***************************************************************************)
EXTENDS Integers, Sequences, FiniteSets, TLC

VARIABLES pc, text, cleaned, recleaned, iso, minutes, human, soup, recipe, result,
          collected, sections

vars == <<pc, text, cleaned, recleaned, iso, minutes, human, soup, recipe, result,
          collected, sections>>

(***************************************************************************)
(* Bounds of the model.                                                    *)
(***************************************************************************)
MaxLen == 4

MaxNodes == 3

MaxElems == 3

MaxLeaves == 3

(***************************************************************************)
(* Character classes used by the regular expressions of the source.        *)
(***************************************************************************)
Digits == <<"0", "1", "2", "3", "4", "5", "6", "7", "8", "9">>

IsSpace(c) == c \in {" ", "\n", "\t"}

IsDigit(c) == \E i \in 1..10 : Digits[i] = c

\* the ASCII glyphs of LEADING_BULLET's class
IsBullet(c) == c \in {"-", "*"}

IsLetter(c) ==
  c \in {"a", "b", "c", "d", "e", "f", "g", "h", "i", "j", "k", "l", "m", "n", "o", "p",
         "q", "r", "s", "t", "u", "v", "w", "x", "y", "z", "A", "B", "C", "D", "E", "F",
         "G", "H", "I", "J", "K", "L", "M", "N", "O", "P", "Q", "R", "S", "T", "U", "V",
         "W", "X", "Y", "Z"}

\* the class [A-Za-z\)] of GLUED_NUM
IsGlueLeft(c) == IsLetter(c) \/ c = ")"

StringsUpTo(chars, n) == UNION {[1..k -> chars] : k \in 0..n}

(***************************************************************************)
(* Text cleaning helpers.                                                  *)
(***************************************************************************)
\* WS.sub(" ", s): every maximal whitespace run becomes one space.
RECURSIVE WS_sub(_)
WS_sub(s) ==
  IF s = <<>> THEN <<>>
  ELSE IF IsSpace(Head(s))
       THEN IF Len(s) > 1 /\ IsSpace(s[2])
            THEN WS_sub(Tail(s))
            ELSE <<" ">> \o WS_sub(Tail(s))
       ELSE <<Head(s)>> \o WS_sub(Tail(s))

RECURSIVE lstrip(_)
lstrip(s) == IF s # <<>> /\ IsSpace(Head(s)) THEN lstrip(Tail(s)) ELSE s

RECURSIVE rstrip(_)
rstrip(s) ==
  IF s # <<>> /\ IsSpace(s[Len(s)]) THEN rstrip(SubSeq(s, 1, Len(s) - 1)) ELSE s

strip(s) == rstrip(lstrip(s))

\* LEADING_BULLET.sub("", s): one leading bullet glyph and the whitespace after it.
LEADING_BULLET_sub(s) ==
  IF s # <<>> /\ IsBullet(Head(s)) THEN lstrip(Tail(s)) ELSE s

\* GLUED_NUM.sub(r"\1 \2", s): a space between a letter or ")" and a digit.
RECURSIVE GLUED_NUM_sub(_)
GLUED_NUM_sub(s) ==
  IF Len(s) < 2 THEN s
  ELSE IF IsGlueLeft(s[1]) /\ IsDigit(s[2])
       THEN <<s[1], " ">> \o GLUED_NUM_sub(Tail(s))
       ELSE <<s[1]>> \o GLUED_NUM_sub(Tail(s))

clean_text(s) == GLUED_NUM_sub(LEADING_BULLET_sub(strip(WS_sub(s))))

(***************************************************************************)
(* Time helpers (ISO8601 -> minutes -> human).                             *)
(***************************************************************************)
None == [none |-> TRUE, v |-> 0]

Some(n) == [none |-> FALSE, v |-> n]

Upper(c) ==
  CASE c = "p" -> "P" [] c = "t" -> "T" [] c = "d" -> "D" [] c = "h" -> "H"
    [] c = "m" -> "M" [] c = "s" -> "S" [] c = "w" -> "W" [] c = "y" -> "Y"
    [] OTHER -> c

DigitVal(c) == CHOOSE d \in 0..9 : Digits[d + 1] = c

\* int(...) of the digit run s[i..j-1]
RECURSIVE int(_, _, _)
int(s, i, j) == IF j <= i THEN 0 ELSE 10 * int(s, i, j - 1) + DigitVal(s[j - 1])

\* str(n) for n >= 0
RECURSIVE str(_)
str(n) == IF n < 10 THEN <<Digits[n + 1]>> ELSE str(n \div 10) \o <<Digits[(n % 10) + 1]>>

\* end of the greedy \d+ run that starts at i (i itself when there is none)
RECURSIVE DigitRunEnd(_, _)
DigitRunEnd(s, i) == IF i <= Len(s) /\ IsDigit(s[i]) THEN DigitRunEnd(s, i + 1) ELSE i

\* one optional group (?:(?P<g>\d+)L)? tried at position i, letters matched with re.I
Group(s, i, L) ==
  LET j == DigitRunEnd(s, i)
  IN  IF j > i /\ j <= Len(s) /\ Upper(s[j]) = L
      THEN [hit |-> TRUE, next |-> j + 1, val |-> int(s, i, j)]
      ELSE [hit |-> FALSE, next |-> i, val |-> 0]

\* ISO_DUR.match(s): ^P(?:(\d+)D)?(?:T(?:(\d+)H)?(?:(\d+)M)?(?:(\d+)S)?)?$
ISO_DUR_match(s) ==
  IF s = <<>> \/ Upper(s[1]) # "P"
  THEN [ok |-> FALSE, days |-> 0, hours |-> 0, minutes |-> 0, seconds |-> 0]
  ELSE LET d    == Group(s, 2, "D")
           hasT == d.next <= Len(s) /\ Upper(s[d.next]) = "T"
           h    == Group(s, d.next + 1, "H")
           mi   == Group(s, h.next, "M")
           se   == Group(s, mi.next, "S")
           end  == IF hasT THEN se.next ELSE d.next
       IN  IF end = Len(s) + 1
           THEN [ok |-> TRUE, days |-> d.val,
                 hours   |-> IF hasT THEN h.val ELSE 0,
                 minutes |-> IF hasT THEN mi.val ELSE 0,
                 seconds |-> IF hasT THEN se.val ELSE 0]
           ELSE [ok |-> FALSE, days |-> 0, hours |-> 0, minutes |-> 0, seconds |-> 0]

(***************************************************************************)
(* JSON values of a time field: null, a string, a number or a list.  For a *)
(* number s holds its decimal digits, for a list s holds its elements.     *)
(***************************************************************************)
JNull == [k |-> "null", s |-> <<>>]

JStr(s) == [k |-> "str", s |-> s]

JNum(n) == [k |-> "num", s |-> str(n)]

JList(l) == [k |-> "list", s |-> l]

\* Python truthiness of a JSON value
Truthy(j) ==
  CASE j.k = "null" -> FALSE
    [] j.k = "num"  -> int(j.s, 1, Len(j.s) + 1) # 0
    [] OTHER        -> j.s # <<>>

Returned(opt) == [raised |-> FALSE, none |-> opt.none, v |-> opt.v]

Raised == [raised |-> TRUE, none |-> TRUE, v |-> 0]

parse_iso8601_minutes(j) ==
  IF ~Truthy(j) THEN Returned(None)
  ELSE IF j.k # "str" THEN Raised          \* iso.strip() on an int or a list
  ELSE LET m == ISO_DUR_match(strip(j.s))
       IN  IF ~m.ok THEN Returned(None)
           ELSE LET total_minutes == m.days * 24 * 60 + m.hours * 60 + m.minutes
                    total == IF total_minutes = 0 /\ m.seconds # 0 THEN 1 ELSE total_minutes
                IN  IF total = 0 THEN Returned(None) ELSE Returned(Some(total))

NoText == [none |-> TRUE, s |-> <<>>]

SomeText(s) == [none |-> FALSE, s |-> s]

humanize_minutes(total) ==
  IF total.none THEN NoText
  ELSE LET h == total.v \div 60
           m == total.v % 60
           hs == IF h = 0 THEN <<>>
                 ELSE <<str(h) \o <<" ", "h", "r">> \o (IF h = 1 THEN <<>> ELSE <<"s">>)>>
           ms == IF m = 0 THEN <<>>
                 ELSE <<str(m) \o <<" ", "m", "i", "n">> \o (IF m = 1 THEN <<>> ELSE <<"s">>)>>
           parts == IF hs \o ms = <<>> THEN << <<"0", " ", "m", "i", "n", "s">> >> ELSE hs \o ms
       IN  SomeText(IF Len(parts) = 2 THEN parts[1] \o <<" ">> \o parts[2] ELSE parts[1])

(***************************************************************************)
(* JSON-LD Recipe extraction.                                              *)
(*                                                                         *)
(* A page (soup) carries its ld+json script blocks in document order.      *)
(* A block is undecodable ("bad"), a JSON list, a dict with an "@graph"    *)
(* list, or a plain dict (one item).  An item that is not a dict has       *)
(* dict = FALSE.  A list-valued field is a JList whose s holds the         *)
(* elements.  A step of recipeInstructions is a string (dict = FALSE, s)   *)
(* or an object with the keys text, name and itemListElement.              *)
(***************************************************************************)
Lower(ty) ==
  CASE ty = "Recipe" -> "recipe" [] ty = "RECIPE" -> "recipe"
    [] ty = "Article" -> "article" [] OTHER -> ty

\* lines 294-298: types is a list, or anything else compared through str()
is_recipe(types) ==
  IF types.k = "list"
  THEN \E i \in 1..Len(types.s) : Lower(types.s[i]) = "recipe"
  ELSE types.k = "str" /\ Lower(types.s) = "recipe"

\* str.splitlines() on "\n"
RECURSIVE splitlines(_)
splitlines(s) ==
  IF s = <<>> THEN <<>>
  ELSE IF \E i \in 1..Len(s) : s[i] = "\n"
       THEN LET i == CHOOSE i \in 1..Len(s) : s[i] = "\n" /\ \A j \in 1..(i - 1) : s[j] # "\n"
            IN  <<SubSeq(s, 1, i - 1)>> \o splitlines(SubSeq(s, i + 1, Len(s)))
       ELSE <<s>>

\* [clean_text(x) for x in items if clean_text(x)]
RECURSIVE CleanKeep(_)
CleanKeep(items) ==
  IF items = <<>> THEN <<>>
  ELSE LET c == clean_text(Head(items))
       IN  (IF c = <<>> THEN <<>> ELSE <<c>>) \o CleanKeep(Tail(items))

\* lines 314-318
jsonld_ingredients(item) ==
  LET ing == IF Truthy(item.recipeIngredient) THEN item.recipeIngredient ELSE item.ingredients
  IN  IF ing.k = "list" THEN CleanKeep(ing.s) ELSE <<>>

\* lines 324-328: the text of one step; clean_text raises on a value that is not a str
step_txt(st) ==
  IF st.dict
  THEN IF Truthy(st.text)
       THEN [raised |-> st.text.k # "str", txt |-> IF st.text.k = "str" THEN st.text.s ELSE <<>>]
       ELSE [raised |-> FALSE, txt |-> <<>>]
  ELSE [raised |-> FALSE, txt |-> st.s]

\* lines 320-336: the steps, or raised when some clean_text call raised
jsonld_instructions(item) ==
  LET instr == item.recipeInstructions
  IN  IF instr.k = "list"
      THEN LET txts == [i \in 1..Len(instr.s) |-> step_txt(instr.s[i])]
           IN  IF \E i \in 1..Len(txts) : txts[i].raised
               THEN [raised |-> TRUE, steps |-> <<>>]
               ELSE [raised |-> FALSE,
                     steps |-> CleanKeep([i \in 1..Len(txts) |-> txts[i].txt])]
      ELSE IF instr.k = "str"
      THEN [raised |-> FALSE, steps |-> CleanKeep(splitlines(instr.s))]
      ELSE [raised |-> FALSE, steps |-> <<>>]

EmptyRecipe ==
  [name |-> NoText, description |-> NoText, ingredients |-> <<>>, instructions |-> <<>>,
   prepTime |-> JNull, cookTime |-> JNull, totalTime |-> JNull]

\* lines 302-353: the normalized record of one Recipe item
jsonld_record(item) ==
  [name |-> item.name, description |-> item.description,
   ingredients |-> jsonld_ingredients(item),
   instructions |-> jsonld_instructions(item).steps,
   prepTime |-> item.prepTime, cookTime |-> item.cookTime, totalTime |-> item.totalTime]

\* lines 280-291: the candidate items of one decoded block
block_candidates(block) ==
  IF block.k = "bad" THEN <<>>
  ELSE SelectSeq(block.items, LAMBDA it : it.dict)

RECURSIVE page_candidates(_)
page_candidates(scripts) ==
  IF scripts = <<>> THEN <<>>
  ELSE block_candidates(Head(scripts)) \o page_candidates(Tail(scripts))

\* lines 273-354: the first Recipe-typed candidate in document order is returned
extract_jsonld_recipe(page) ==
  LET recipes == SelectSeq(page_candidates(page.scripts), LAMBDA it : is_recipe(it.type))
  IN  IF recipes = <<>>
      THEN [raised |-> FALSE, found |-> FALSE, recipe |-> EmptyRecipe]
      ELSE IF jsonld_instructions(Head(recipes)).raised
      THEN [raised |-> TRUE, found |-> FALSE, recipe |-> EmptyRecipe]
      ELSE [raised |-> FALSE, found |-> TRUE, recipe |-> jsonld_record(Head(recipes))]

(***************************************************************************)
(* Fallback scraping for title/desc/ingredients/instructions.              *)
(*                                                                         *)
(* The page carries its <h1> text (none when there is no <h1>), the        *)
(* content of its og:title, description and og:description metas, and its  *)
(* list-like elements in document order, each with the markup kind that    *)
(* decides which selectors match it and its get_text(" ", strip=True).     *)
(***************************************************************************)
fallback_title(page) ==
  IF ~page.h1.none THEN SomeText(clean_text(page.h1.s))
  ELSE IF ~page.og_title.none /\ page.og_title.s # <<>>
       THEN SomeText(clean_text(page.og_title.s))
       ELSE NoText

fallback_description(page) ==
  IF ~page.meta_description.none /\ page.meta_description.s # <<>>
  THEN SomeText(clean_text(page.meta_description.s))
  ELSE IF ~page.og_description.none /\ page.og_description.s # <<>>
       THEN SomeText(clean_text(page.og_description.s))
       ELSE NoText

\* str.lower() over the model's alphabet
LowerText(s) == [i \in 1..Len(s) |-> IF s[i] = "A" THEN "a" ELSE s[i]]

RECURSIVE dedupe_from(_, _)
dedupe_from(items, seen) ==
  IF items = <<>> THEN <<>>
  ELSE LET key == LowerText(Head(items))
       IN  IF key # <<>> /\ key \notin seen
           THEN <<Head(items)>> \o dedupe_from(Tail(items), seen \cup {key})
           ELSE dedupe_from(Tail(items), seen)

dedupe_keep_order(items) == dedupe_from(items, {})

\* soup.select(sel): does the selector string match an element of this markup kind
Selects(sel, kind) ==
  CASE sel = "ul.ingredients-section li, li.mntl-structured-ingredients__list-item" ->
         kind \in {"ul.ingredients-section>li", "li.mntl-structured-ingredients__list-item"}
    [] sel = "[itemprop='recipeIngredient']" ->
         kind = "li[itemprop=recipeIngredient]"
    [] sel = "ul.ingredients li" ->
         kind = "ul.ingredients>li"
    [] sel = ".ingredients li" ->
         kind \in {"ul.ingredients>li", "ol.ingredients>li"}
    [] sel = "ol.instructions-section li, li.mntl-sc-block-group--LI" ->
         kind \in {"ol.instructions-section>li", "ul>li.mntl-sc-block-group--LI"}
    [] sel = "[itemprop='recipeInstructions'] li" ->
         kind = "div[itemprop=recipeInstructions]>li"
    [] sel = "ol li.instruction, ol li, .instructions li" ->
         kind \in {"ol>li", "ol.instructions-section>li", "ol.ingredients>li",
                   "ul.instructions>li"}
    [] OTHER -> FALSE

select(elems, sel) == SelectSeq(elems, LAMBDA e : Selects(sel, e.kind))

\* collect_list_text without the break of line 386: every selector adds to out
RECURSIVE collect_out_no_break(_, _)
collect_out_no_break(elems, selectors) ==
  IF selectors = <<>> THEN <<>>
  ELSE LET matched == select(elems, Head(selectors))
       IN  CleanKeep([i \in 1..Len(matched) |-> matched[i].text])
             \o collect_out_no_break(elems, Tail(selectors))

\* lines 380-386: accumulate the non-empty cleaned texts of the first selector that has any
RECURSIVE collect_out(_, _)
collect_out(elems, selectors) ==
  IF selectors = <<>> THEN <<>>
  ELSE LET matched == select(elems, Head(selectors))
           out == CleanKeep([i \in 1..Len(matched) |-> matched[i].text])
       IN  IF out # <<>> THEN out ELSE collect_out(elems, Tail(selectors))

collect_list_text(elems, selectors) == dedupe_keep_order(collect_out(elems, selectors))

IngredientSelectors ==
  <<"ul.ingredients-section li, li.mntl-structured-ingredients__list-item",
    "[itemprop='recipeIngredient']",
    "ul.ingredients li",
    ".ingredients li">>

InstructionSelectors ==
  <<"ol.instructions-section li, li.mntl-sc-block-group--LI",
    "[itemprop='recipeInstructions'] li",
    "ol li.instruction, ol li, .instructions li">>

fallback_ingredients(page) == collect_list_text(page.elems, IngredientSelectors)

fallback_instructions(page) == collect_list_text(page.elems, InstructionSelectors)

(***************************************************************************)
(* Main extraction.                                                        *)
(***************************************************************************)
CleanAll(items) == [i \in 1..Len(items) |-> clean_text(items[i])]

\* x or y or "" on optional texts
TextOr(x, y) ==
  IF ~x.none /\ x.s # <<>> THEN x.s
  ELSE IF ~y.none /\ y.s # <<>> THEN y.s ELSE <<>>

NoTimes == [prepTime |-> NoText, cookTime |-> NoText, totalTime |-> NoText]

RaisedResult ==
  [status |-> "raised", title |-> <<>>, description |-> <<>>,
   ingredients |-> <<>>, instructions |-> <<>>, times |-> NoTimes]

\* parse_recipe with an all-or-nothing fallback: the DOM is consulted only for a page
\* whose structured data gave none of the four fields
assemble_all_or_nothing(page, rec) ==
  LET prep  == parse_iso8601_minutes(rec.prepTime)
      cook  == parse_iso8601_minutes(rec.cookTime)
      total == parse_iso8601_minutes(rec.totalTime)
      bare  == /\ TextOr(rec.name, NoText) = <<>> /\ TextOr(rec.description, NoText) = <<>>
               /\ rec.ingredients = <<>> /\ rec.instructions = <<>>
  IN  IF prep.raised \/ cook.raised \/ total.raised THEN RaisedResult
      ELSE [status |-> "record",
            title |-> TextOr(rec.name, IF bare THEN fallback_title(page) ELSE NoText),
            description |-> TextOr(rec.description,
                                   IF bare THEN fallback_description(page) ELSE NoText),
            ingredients |-> CleanAll(IF bare THEN fallback_ingredients(page)
                                     ELSE rec.ingredients),
            instructions |-> CleanAll(IF bare THEN fallback_instructions(page)
                                      ELSE rec.instructions),
            times |-> [prepTime  |-> humanize_minutes(prep),
                       cookTime  |-> humanize_minutes(cook),
                       totalTime |-> humanize_minutes(total)]]

\* lines 426-475, given the result of line 424
assemble(page, rec) ==
  LET prep  == parse_iso8601_minutes(rec.prepTime)
      cook  == parse_iso8601_minutes(rec.cookTime)
      total == parse_iso8601_minutes(rec.totalTime)
  IN  IF prep.raised \/ cook.raised \/ total.raised THEN RaisedResult
      ELSE [status |-> "record",
            title |-> TextOr(rec.name, fallback_title(page)),
            description |-> TextOr(rec.description, fallback_description(page)),
            ingredients |-> CleanAll(IF rec.ingredients # <<>> THEN rec.ingredients
                                     ELSE fallback_ingredients(page)),
            instructions |-> CleanAll(IF rec.instructions # <<>> THEN rec.instructions
                                      ELSE fallback_instructions(page)),
            times |-> [prepTime  |-> humanize_minutes(prep),
                       cookTime  |-> humanize_minutes(cook),
                       totalTime |-> humanize_minutes(total)]]

\* lines 420-475, given the outcome of line 424
parse_recipe_from(page, located) ==
  IF located.raised THEN RaisedResult ELSE assemble(page, located.recipe)

parse_recipe(page) == parse_recipe_from(page, extract_jsonld_recipe(page))

(***************************************************************************)
(* Article extraction (sections).                                          *)
(*                                                                         *)
(* The article container is a sequence of leaves in document order: h2/h3  *)
(* headings and paragraphs.  wrap = 0 is a direct child of the container,  *)
(* a maximal run of wrap = 1 leaves is one <div> child of the container.   *)
(* A paragraph carries whether it or an ancestor has a junk class, the     *)
(* index of the first PARA_SELECTORS entry that selects it and the number  *)
(* of characters of its text that come from <a> elements.  The paragraphs  *)
(* of a page are pairwise different in markup, so the `seen` set only      *)
(* keeps a paragraph from being collected again by a later selector.       *)
(***************************************************************************)
MinFragmentLen == 25

MaxSections == 200

NumParaSelectors == 8

\* does s contain pat as a substring
Contains(s, pat) ==
  \E i \in 1..(Len(s) - Len(pat) + 1) : SubSeq(s, i, i + Len(pat) - 1) = pat

\* _JUNK_TEXT_PATTERNS.search(text), for the phrases the model's texts can hold
JunkText(s) ==
  \/ Contains(s, <<"r", "e", "a", "d", " ", "m", "o", "r", "e">>)
  \/ Contains(s, <<"w", "a", "t", "c", "h">>)

IsDivider(c) == c \in {"|", "/"}

\* lines 106-109
final_trim(s) ==
  LET w == strip(WS_sub(s))
  IN  IF w # <<>> /\ IsDivider(w[Len(w)]) THEN rstrip(SubSeq(w, 1, Len(w) - 1)) ELSE w

\* lines 168-184: the filters a selected <p> has to pass
keeps_paragraph(p) ==
  /\ ~p.junk_class
  /\ p.text # <<>>
  /\ ~JunkText(p.text)
  /\ ~(p.link_len > 0 /\ 10 * p.link_len > 7 * Len(p.text))
  /\ ~(Len(p.text) < MinFragmentLen /\ p.text[Len(p.text)] # ".")

\* positions of the kept paragraphs that selector k is the first to select, in DOM order
RECURSIVE selected_by(_, _, _)
selected_by(body, k, i) ==
  IF i > Len(body) THEN <<>>
  ELSE (IF body[i].tag = "p" /\ body[i].sel = k /\ keeps_paragraph(body[i])
        THEN <<i>> ELSE <<>>) \o selected_by(body, k, i + 1)

\* lines 156-188: positions of the candidates, selector by selector
RECURSIVE candidates_from(_, _)
candidates_from(body, k) ==
  IF k > NumParaSelectors THEN <<>>
  ELSE selected_by(body, k, 1) \o candidates_from(body, k + 1)

_paragraph_candidates(body) == candidates_from(body, 1)

IsHeading(leaf) == leaf.tag \in {"h2", "h3"}

heading_ok(txt) == txt # <<>> /\ ~JunkText(txt)

\* lines 226-246: climb from the <div> of paragraph i, scanning its previous siblings
RECURSIVE scan_siblings(_, _)
scan_siblings(body, j) ==
  IF j < 1 THEN 0
  ELSE IF body[j].wrap = 0
       THEN IF IsHeading(body[j]) THEN j ELSE scan_siblings(body, j - 1)
       ELSE LET a == CHOOSE a \in 1..j :
                       /\ \A x \in a..j : body[x].wrap = 1
                       /\ (a = 1 \/ body[a - 1].wrap = 0)
                inner == {x \in a..j : IsHeading(body[x])}
            IN  IF inner # {} THEN CHOOSE x \in inner : \A y \in inner : x <= y
                ELSE scan_siblings(body, a - 1)

\* lines 216-248
_closest_heading_for(body, i) ==
  LET before == {j \in 1..(i - 1) : IsHeading(body[j])}
      h      == IF before = {} THEN 0 ELSE CHOOSE j \in before : \A x \in before : x <= j
      fast   == IF h = 0 THEN <<>> ELSE final_trim(body[h].text)
  IN  IF heading_ok(fast) THEN SomeText(fast)
      ELSE IF body[i].wrap = 0 THEN NoText
      ELSE LET start == CHOOSE a \in 1..i :
                          /\ \A x \in a..i : body[x].wrap = 1
                          /\ (a = 1 \/ body[a - 1].wrap = 0)
               prev  == scan_siblings(body, start - 1)
               txt   == IF prev = 0 THEN <<>> ELSE final_trim(body[prev].text)
           IN  IF heading_ok(txt) THEN SomeText(txt) ELSE NoText

Take(seq, n) == IF Len(seq) <= n THEN seq ELSE SubSeq(seq, 1, n)

\* extract_article_sections that keeps only the first entry of a run of equal headings
extract_article_sections_merged(body) ==
  LET cands == _paragraph_candidates(body)
      head(i) == LET h == _closest_heading_for(body, i) IN IF h.none THEN <<>> ELSE h.s
      firsts == SelectSeq([n \in 1..Len(cands) |-> n],
                          LAMBDA n : n = 1 \/ head(cands[n]) # head(cands[n - 1]))
  IN  Take([n \in 1..Len(firsts) |->
              [heading   |-> head(cands[firsts[n]]),
               paragraph |-> final_trim(body[cands[firsts[n]]].text)]],
           MaxSections)

\* lines 250-262: one {heading, paragraph} entry per kept paragraph
extract_article_sections(body) ==
  LET cands == _paragraph_candidates(body)
      nonempty == SelectSeq(cands, LAMBDA i : final_trim(body[i].text) # <<>>)
  IN  Take([n \in 1..Len(nonempty) |->
              [heading   |-> LET h == _closest_heading_for(body, nonempty[n])
                             IN  IF h.none THEN <<>> ELSE h.s,
               paragraph |-> final_trim(body[nonempty[n]].text)]],
           MaxSections)

(***************************************************************************)
(* Values of the variables a specification does not use.                   *)
(***************************************************************************)
EmptyPage ==
  [scripts |-> <<>>, h1 |-> NoText, og_title |-> NoText, meta_description |-> NoText,
   og_description |-> NoText, elems |-> <<>>, body |-> <<>>]

NoComponents == [Y |-> -1, Mo |-> -1, W |-> -1, D |-> -1, H |-> -1, Mi |-> -1, S |-> -1]

NoIso == [form |-> FALSE, val |-> JNull, c |-> NoComponents]

NotLocated == [raised |-> FALSE, found |-> FALSE, recipe |-> EmptyRecipe]

NoResult ==
  [status |-> "none", title |-> <<>>, description |-> <<>>,
   ingredients |-> <<>>, instructions |-> <<>>, times |-> NoTimes]

NoCollected == [ingredients |-> <<>>, instructions |-> <<>>]

IdleText == text = <<>> /\ cleaned = <<>> /\ recleaned = <<>>

IdleIso == iso = NoIso /\ minutes = Returned(None) /\ human = NoText

IdlePage ==
  /\ soup = EmptyPage /\ recipe = NotLocated /\ result = NoResult
  /\ collected = NoCollected /\ sections = <<>>

(***************************************************************************)
(* The text sanitizer applied to a string and again to its own output.     *)
(***************************************************************************)
CleanChars == {"a", "1", " ", "-", ")"}

InitClean ==
  /\ pc = "start"
  /\ text \in StringsUpTo(CleanChars, MaxLen)
  /\ cleaned = <<>> /\ recleaned = <<>>
  /\ IdleIso /\ IdlePage

Clean ==
  /\ pc = "start"
  /\ cleaned' = clean_text(text)
  /\ pc' = "cleaned"
  /\ UNCHANGED <<text, recleaned, iso, minutes, human, soup, recipe, result,
                 collected, sections>>

Reclean ==
  /\ pc = "cleaned"
  /\ recleaned' = clean_text(cleaned)
  /\ pc' = "recleaned"
  /\ UNCHANGED <<text, cleaned, iso, minutes, human, soup, recipe, result,
                 collected, sections>>

NextClean == Clean \/ Reclean

SpecClean == InitClean /\ [][NextClean]_vars

(***************************************************************************)
(* The duration parser applied to the value of a time field.  An input of  *)
(* the ISO-8601 form is written out from its components (-1: component     *)
(* absent) and then parsed from its characters.                            *)
(***************************************************************************)
LowerIso(c) ==
  CASE c = "P" -> "p" [] c = "T" -> "t" [] c = "D" -> "d" [] c = "H" -> "h"
    [] c = "M" -> "m" [] c = "S" -> "s" [] c = "W" -> "w" [] c = "Y" -> "y"
    [] OTHER -> c

Part(n, L) == IF n < 0 THEN <<>> ELSE str(n) \o <<L>>

ToIso(c, tsep, lower) ==
  LET date == Part(c.Y, "Y") \o Part(c.Mo, "M") \o Part(c.W, "W") \o Part(c.D, "D")
      time == Part(c.H, "H") \o Part(c.Mi, "M") \o Part(c.S, "S")
      s    == <<"P">> \o date \o (IF time # <<>> \/ tsep THEN <<"T">> \o time ELSE <<>>)
  IN  IF lower THEN [i \in 1..Len(s) |-> LowerIso(s[i])] ELSE s

IsoComponents ==
  [Y : {-1, 1}, Mo : {-1, 2}, W : {-1, 1}, D : {-1, 0, 1}, H : {-1, 1, 25},
   Mi : {-1, 0, 30, 45}, S : {-1, 30, 90}]

IsoForms ==
  {[form |-> TRUE, val |-> JStr(ToIso(c, tsep, lower)), c |-> c] :
     c \in IsoComponents, tsep \in BOOLEAN, lower \in BOOLEAN}

NotIsoValues ==
  {JStr(<<"g", "a", "r", "b", "a", "g", "e">>), JStr(<<"1", "H">>), JStr(<<"P", "1">>),
   JStr(<<"P", "1", "H">>), JStr(<<"P", "T", "1", "M", "1", "H">>), JStr(<<"T", "1", "M">>),
   JStr(<<"P", "T", "1", ".", "5", "H">>), JStr(<<>>), JStr(<<" ">>), JNull,
   JNum(0), JNum(30), JList(<<>>), JList(<< <<"P", "T", "1", "H">> >>)}

InitDur ==
  /\ pc = "start"
  /\ iso \in IsoForms \cup {[form |-> FALSE, val |-> v, c |-> NoComponents] : v \in NotIsoValues}
  /\ minutes = Returned(None) /\ human = NoText
  /\ IdleText /\ IdlePage

ParseMinutes ==
  /\ pc = "start"
  /\ minutes' = parse_iso8601_minutes(iso.val)
  /\ pc' = "parsed"
  /\ UNCHANGED <<text, cleaned, recleaned, iso, human, soup, recipe, result,
                 collected, sections>>

Humanize ==
  /\ pc = "parsed"
  /\ ~minutes.raised
  /\ human' = humanize_minutes(minutes)
  /\ pc' = "humanized"
  /\ UNCHANGED <<text, cleaned, recleaned, iso, minutes, soup, recipe, result,
                 collected, sections>>

NextDur == ParseMinutes \/ Humanize

SpecDur == InitDur /\ [][NextDur]_vars

(***************************************************************************)
(* The pages parse_recipe is run on.                                       *)
(***************************************************************************)
StrStep(s) == [dict |-> FALSE, s |-> s, text |-> JNull, name |-> <<>>, itemListElement |-> <<>>]

HowToStep(j) == [dict |-> TRUE, s |-> <<>>, text |-> j, name |-> <<>>, itemListElement |-> <<>>]

HowToSection(n, steps) ==
  [dict |-> TRUE, s |-> <<>>, text |-> JNull, name |-> n, itemListElement |-> steps]

Node(ty, n, d, ri, ing, ins, pt, ct, tt) ==
  [dict |-> TRUE, type |-> ty, name |-> n, description |-> d, recipeIngredient |-> ri,
   ingredients |-> ing, recipeInstructions |-> ins,
   prepTime |-> pt, cookTime |-> ct, totalTime |-> tt]

\* a list item that is not a JSON object
Scalar == [Node(JNull, NoText, NoText, JNull, JNull, JNull, JNull, JNull, JNull)
            EXCEPT !.dict = FALSE]

Flour == <<"2", " ", "a">>

Salt == <<"b", "1">>

Mix == <<"a", ".">>

Bake == <<"b", " ", "c">>

IngredientValues ==
  { <<JNull, JNull>>, <<JStr(Flour), JNull>>, <<JList(<<>>), JNull>>,
    <<JList(<<Flour, Salt>>), JNull>>, <<JList(<<Flour, Flour>>), JNull>>,
    <<JList(<< <<"-", " ", "-", " ", "a">> >>), JNull>>,
    <<JList(<< <<"-", "-">>, Flour >>), JNull>>,
    <<JList(<< <<" ">> >>), JNull>>,
    <<JNull, JList(<<Salt>>)>>, <<JList(<<>>), JList(<<Salt>>)>> }

InstructionValues ==
  { JNull, JStr(<<"a", ".", "\n", "-", " ", "b">>), JList(<<>>),
    JList(<<StrStep(Mix), HowToStep(JStr(Salt))>>),
    JList(<<HowToStep(JStr(<<>>)), HowToStep(JNull)>>),
    JList(<<HowToStep(JNum(5))>>),
    JList(<<StrStep(<<"*", " ", "-">>)>>),
    JList(<<HowToSection(<<"A">>, <<HowToStep(JStr(Mix)), HowToStep(JStr(Bake))>>),
            HowToStep(JStr(<<"c">>))>>),
    JList(<<HowToSection(<<"A">>, <<HowToStep(JStr(Mix))>>)>>) }

TimeValues ==
  { <<JNull, JNull, JNull>>,
    <<JStr(<<"P", "T", "3", "0", "M">>), JStr(<<"P", "T", "1", "H">>), JNull>>,
    <<JStr(<<"x">>), JNull, JStr(<<"P", "T", "9", "0", "M">>)>>,
    <<JNum(30), JNull, JNull>>,
    <<JNull, JNull, JList(<< <<"P", "T", "1", "H">> >>)>> }

RecipeType == [k |-> "str", s |-> "Recipe"]

RecipeInTypes == [k |-> "list", s |-> <<"Article", "recipe">>]

ArticleType == [k |-> "str", s |-> "Article"]

FieldNodes ==
  { Node(RecipeType, n, d, ing[1], ing[2], ins, tm[1], tm[2], tm[3]) :
      n \in {NoText, SomeText(<<"A">>)}, d \in {NoText, SomeText(<<"c">>)},
      ing \in IngredientValues, ins \in InstructionValues, tm \in TimeValues }

Elem(k, s) == [kind |-> k, text |-> s]

ElemLists ==
  { <<>>,
    <<Elem("ul.ingredients>li", Flour), Elem("ul.ingredients>li", <<"-", "-">>)>>,
    <<Elem("ol>li", Mix), Elem("ol>li", <<"*", "*">>)>>,
    <<Elem("ul.ingredients>li", Salt), Elem("ol>li", Bake)>> }

Doms ==
  { [EmptyPage EXCEPT !.h1 = t[1], !.og_title = t[2], !.meta_description = d, !.elems = e] :
      t \in { <<NoText, NoText>>, <<SomeText(<<"b">>), SomeText(<<"c">>)>>,
              <<NoText, SomeText(<<"c">>)>> },
      d \in {NoText, SomeText(<<"a">>)},
      e \in ElemLists }

\* one plain-dict block holding one Recipe node, over every DOM
FieldPages ==
  { [dom EXCEPT !.scripts = << [k |-> "dict", items |-> <<n>>] >>] :
      n \in FieldNodes, dom \in Doms }

\* the nodes of the pages that carry several candidates
Candidates ==
  { Scalar,
    Node(ArticleType, SomeText(<<"a">>), NoText, JList(<<Salt>>), JNull, JList(<<StrStep(Bake)>>),
         JNull, JNull, JNull),
    Node(RecipeType, NoText, NoText, JNull, JNull, JNull, JNull, JNull, JNull),
    Node(RecipeType, SomeText(<<"A">>), NoText, JNull, JNull, JNull, JNull, JNull, JNull),
    Node(RecipeType, SomeText(<<"b">>), NoText, JList(<<Flour>>), JNull, JNull,
         JNull, JNull, JNull),
    Node(RecipeInTypes, SomeText(<<"c">>), NoText, JList(<<Flour, Salt>>), JNull,
         JList(<<HowToStep(JStr(Mix))>>), JNull, JNull, JNull) }

\* the blocks of a node sequence: cut[i] says that node i opens a new script block
RECURSIVE Blocks(_, _, _)
Blocks(nodes, cut, kind) ==
  IF nodes = <<>> THEN <<>>
  ELSE LET rest == Blocks(Tail(nodes), Tail(cut), kind)
       IN  IF rest = <<>> \/ cut[2]
           THEN <<[k |-> kind, items |-> <<Head(nodes)>>]>> \o rest
           ELSE <<[k |-> kind, items |-> <<Head(nodes)>> \o rest[1].items]>> \o Tail(rest)

BadBlock == [k |-> "bad", items |-> <<>>]

MultiPages ==
  { [EmptyPage EXCEPT !.scripts = (IF bad THEN <<BadBlock>> ELSE <<>>) \o Blocks(ns, cut, kind)] :
      ns \in UNION {[1..n -> Candidates] : n \in 1..MaxNodes},
      cut \in [1..MaxNodes -> BOOLEAN],
      kind \in {"list", "graph"},
      bad \in BOOLEAN }

InitPipe ==
  /\ pc = "start"
  /\ soup \in FieldPages \cup MultiPages \cup Doms
  /\ recipe = NotLocated /\ result = NoResult
  /\ collected = NoCollected /\ sections = <<>>
  /\ IdleText /\ IdleIso

Locate ==
  /\ pc = "start"
  /\ recipe' = extract_jsonld_recipe(soup)
  /\ pc' = "located"
  /\ UNCHANGED <<text, cleaned, recleaned, iso, minutes, human, soup, result,
                 collected, sections>>

Assemble ==
  /\ pc = "located"
  /\ result' = parse_recipe_from(soup, recipe)
  /\ pc' = "done"
  /\ UNCHANGED <<text, cleaned, recleaned, iso, minutes, human, soup, recipe,
                 collected, sections>>

NextPipe == Locate \/ Assemble

Spec == InitPipe /\ [][NextPipe]_vars

(***************************************************************************)
(* The DOM fallback for the two lists, run on pages without JSON-LD.       *)
(***************************************************************************)
ElemKinds ==
  {"ul.ingredients-section>li", "ul.ingredients>li", "ol.ingredients>li",
   "ol.instructions-section>li"}

ElemTexts == {<<>>, Flour, <<"2", " ", "A">>, Salt}

Elems == {Elem(k, s) : k \in ElemKinds, s \in ElemTexts}

InitFallback ==
  /\ pc = "start"
  /\ \E es \in UNION {[1..n -> Elems] : n \in 0..MaxElems} :
       soup = [EmptyPage EXCEPT !.elems = es]
  /\ recipe = NotLocated /\ result = NoResult
  /\ collected = NoCollected /\ sections = <<>>
  /\ IdleText /\ IdleIso

FallbackIngredients ==
  /\ pc = "start"
  /\ collected' = [collected EXCEPT !.ingredients = fallback_ingredients(soup)]
  /\ pc' = "ingredients"
  /\ UNCHANGED <<text, cleaned, recleaned, iso, minutes, human, soup, recipe, result,
                 sections>>

FallbackInstructions ==
  /\ pc = "ingredients"
  /\ collected' = [collected EXCEPT !.instructions = fallback_instructions(soup)]
  /\ pc' = "done"
  /\ UNCHANGED <<text, cleaned, recleaned, iso, minutes, human, soup, recipe, result,
                 sections>>

NextFallback == FallbackIngredients \/ FallbackInstructions

SpecFallback == InitFallback /\ [][NextFallback]_vars

(***************************************************************************)
(* The article segmenter, run on article containers.                       *)
(***************************************************************************)
Long(c) == [i \in 1..MinFragmentLen |-> c]

Heading(s, w) ==
  [tag |-> "h2", wrap |-> w, text |-> s, junk_class |-> FALSE, sel |-> 0, link_len |-> 0]

Para(s, w, k, j, l) ==
  [tag |-> "p", wrap |-> w, text |-> s, junk_class |-> j, sel |-> k, link_len |-> l]

Leaves ==
  {Heading(s, w) : s \in {<<"A">>, <<"w", "a", "t", "c", "h">>}, w \in {0, 1}}
  \cup {Para(Long("a"), w, k, FALSE, 0) : w \in {0, 1}, k \in {1, 7}}
  \cup {Heading(<<"b">>, 0),
        Para(Long("b"), 1, 7, FALSE, 0),
        Para(Long("c") \o <<" ", "|">>, 0, 7, FALSE, 0),
        Para(<<"a", ".">>, 1, 7, FALSE, 0),
        Para(<<"a", "b">>, 0, 7, FALSE, 0),
        Para(Long("c"), 0, 7, TRUE, 0),
        Para(Long("a") \o <<"c">>, 0, 7, FALSE, 20),
        Para(<<"r", "e", "a", "d", " ", "m", "o", "r", "e">> \o Long("c"), 0, 7, FALSE, 0)}

\* the markup of a paragraph: what it is without its position in the tree
Markup(leaf) == [leaf EXCEPT !.wrap = 0]

DistinctParagraphs(body) ==
  \A i, j \in 1..Len(body) :
    i # j /\ body[i].tag = "p" /\ body[j].tag = "p" => Markup(body[i]) # Markup(body[j])

InitArticle ==
  /\ pc = "start"
  /\ \E b \in UNION {[1..n -> Leaves] : n \in 0..MaxLeaves} :
       /\ DistinctParagraphs(b)
       /\ soup = [EmptyPage EXCEPT !.body = b]
  /\ recipe = NotLocated /\ result = NoResult
  /\ collected = NoCollected /\ sections = <<>>
  /\ IdleText /\ IdleIso

ArticleSections ==
  /\ pc = "start"
  /\ sections' = extract_article_sections(soup.body)
  /\ pc' = "done"
  /\ UNCHANGED <<text, cleaned, recleaned, iso, minutes, human, soup, recipe, result,
                 collected>>

NextArticle == ArticleSections

SpecArticle == InitArticle /\ [][NextArticle]_vars

(***************************************************************************)
(* Properties.                                                             *)
(***************************************************************************)
AllEmpty(r) == r.title = <<>> /\ r.ingredients = <<>> /\ r.instructions = <<>>

\* C1: parse_recipe returns a record only when the title, the ingredients or the
\* instructions are non-empty after both passes; when all three are empty the
\* outcome is an ExtractionFailure, not a record.
C1_FailureWhenAllEmpty ==
  pc = "done" /\ result.status = "record" => ~AllEmpty(result)

Normalized(s) ==
  /\ s # <<>>
  /\ ~IsSpace(s[1]) /\ ~IsSpace(s[Len(s)])
  /\ \A i \in 1..Len(s) : IsSpace(s[i]) => s[i] = " "
  /\ \A i \in 1..(Len(s) - 1) : ~(IsSpace(s[i]) /\ IsSpace(s[i + 1]))

\* C2: in every record parse_recipe returns, every element of ingredients and of
\* instructions is a non-empty string without leading or trailing whitespace and
\* without a whitespace run longer than one space.
C2_ItemsNormalized ==
  pc = "done" /\ result.status = "record" =>
    /\ \A i \in 1..Len(result.ingredients) : Normalized(result.ingredients[i])
    /\ \A i \in 1..Len(result.instructions) : Normalized(result.instructions[i])

\* C3: clean_text is idempotent: cleaning the cleaned text again changes nothing.
C3_Idempotent ==
  pc = "recleaned" => recleaned = cleaned

\* the minutes the conversion table gives for the components of a duration
TableMinutes(c) ==
  LET n(x) == IF x < 0 THEN 0 ELSE x
  IN  n(c.Y) * 525600 + n(c.Mo) * 43800 + n(c.W) * 10080 + n(c.D) * 1440
        + n(c.H) * 60 + n(c.Mi) + (n(c.S) \div 60)

\* C4: for a string of the form P(nY)?(nM)?(nW)?(nD)?(T(nH)?(nM)?(nS)?)?
\* parse_iso8601_minutes returns the total whole minutes of the conversion table,
\* seconds floored, and None exactly when that total is zero; it returns None for
\* a string that is not of the form.
C4_TableMinutes ==
  pc = "parsed" /\ iso.val.k = "str" =>
    minutes = Returned(IF iso.form /\ TableMinutes(iso.c) > 0
                       THEN Some(TableMinutes(iso.c)) ELSE None)

CompletenessScore(r) ==
  (IF ~r.name.none /\ r.name.s # <<>> THEN 1 ELSE 0)
    + (IF r.ingredients # <<>> THEN 1 ELSE 0)
    + (IF r.instructions # <<>> THEN 1 ELSE 0)

RecipeNodes(page) == SelectSeq(page_candidates(page.scripts), LAMBDA it : is_recipe(it.type))

\* the first node, in document order, among those of the highest score
BestNode(nodes) ==
  LET score(i) == CompletenessScore(jsonld_record(nodes[i]))
      best == CHOOSE i \in 1..Len(nodes) :
                /\ \A j \in 1..Len(nodes) : score(j) <= score(i)
                /\ \A j \in 1..(i - 1) : score(j) < score(i)
  IN  nodes[best]

\* C5: among several Recipe-typed nodes of a page extract_jsonld_recipe selects the
\* one with the highest CompletenessScore, and the first in document order only
\* among nodes of equal highest score.
C5_MostCompleteNode ==
  pc = "located" /\ recipe.found =>
    recipe.recipe = jsonld_record(BestNode(RecipeNodes(soup)))

\* C6: normalization never raises: whatever the JSON shape of a sub-field of the
\* Recipe node, parse_recipe completes and returns a record.
C6_NeverRaises ==
  pc = "done" => result.status # "raised"

\* the value of a text field: the structured-data value when non-empty, else the fallback's
TextFrom(x, y) == IF ~x.none /\ x.s # <<>> THEN x.s ELSE IF y.none THEN <<>> ELSE y.s

Yield(elems, sel) ==
  LET m == select(elems, sel)
      c == [i \in 1..Len(m) |-> clean_text(m[i].text)]
  IN  SelectSeq(c, LAMBDA x : x # <<>>)

\* the yield of the first selector of the list that yields anything
FirstYield(elems, sels) ==
  IF \A k \in 1..Len(sels) : Yield(elems, sels[k]) = <<>> THEN <<>>
  ELSE LET k == CHOOSE k \in 1..Len(sels) :
                  /\ Yield(elems, sels[k]) # <<>>
                  /\ \A j \in 1..(k - 1) : Yield(elems, sels[j]) = <<>>
       IN  Yield(elems, sels[k])

\* the entries that no earlier entry equals up to letter case
FirstOccurrences(items) ==
  LET keep == {i \in 1..Len(items) :
                 \A j \in 1..(i - 1) : LowerText(items[j]) # LowerText(items[i])}
      idx == SelectSeq([i \in 1..Len(items) |-> i], LAMBDA i : i \in keep)
  IN  [n \in 1..Len(idx) |-> items[idx[n]]]

\* C8 as stated: the fallback list is exactly the cleaned non-empty texts of the
\* elements matched by the first selector that yields any, one entry per matching
\* element in document order.
C8_OnePerElement ==
  pc = "done" =>
    /\ collected.ingredients = FirstYield(soup.elems, IngredientSelectors)
    /\ collected.instructions = FirstYield(soup.elems, InstructionSelectors)

\* C8 as amended: the fallback list is the cleaned non-empty texts of the elements
\* matched by the first selector that yields any, in document order, with every
\* text that repeats an earlier one up to letter case left out; later selectors
\* contribute nothing and the list is empty only when no selector yields a text.
C8_FirstYieldDeduped ==
  pc = "done" =>
    /\ collected.ingredients = FirstOccurrences(FirstYield(soup.elems, IngredientSelectors))
    /\ collected.instructions = FirstOccurrences(FirstYield(soup.elems, InstructionSelectors))
    /\ (collected.ingredients = <<>>) =
         (\A k \in 1..Len(IngredientSelectors) : Yield(soup.elems, IngredientSelectors[k]) = <<>>)

\* the first selector matches only an empty element, a later one yields a repeated text
C8_Witness ==
  /\ pc = "done"
  /\ select(soup.elems, IngredientSelectors[1]) # <<>>
  /\ Yield(soup.elems, IngredientSelectors[1]) = <<>>
  /\ Len(FirstYield(soup.elems, IngredientSelectors)) = 2
  /\ Len(collected.ingredients) = 1

RECURSIVE Flatten(_)
Flatten(steps) ==
  IF steps = <<>> THEN <<>>
  ELSE LET st == Head(steps)
       IN  (IF ~st.dict THEN <<st.s>>
            ELSE IF st.itemListElement # <<>> THEN Flatten(st.itemListElement)
            ELSE IF st.text.k = "str" THEN <<st.text.s>> ELSE <<>>)
           \o Flatten(Tail(steps))

HasSection(steps) == \E i \in 1..Len(steps) : steps[i].dict /\ steps[i].itemListElement # <<>>

\* C10: when recipeInstructions is a list with HowToSection objects, the section's
\* label is not an instruction and every nested step text is in instructions,
\* flattened, sanitized and in declared order.
C10_SectionsFlattened ==
  pc = "located" /\ recipe.found /\ Len(RecipeNodes(soup)) = 1 =>
    LET instr == RecipeNodes(soup)[1].recipeInstructions
    IN  instr.k = "list" /\ HasSection(instr.s) =>
          recipe.recipe.instructions = CleanKeep(Flatten(instr.s))

====
